---- MODULE Spec2Model ----
(***************************************************************************)
(* Hysports SkyBall (src/game.ts, kept here as src/unnamed/part_000): the  *)
(* server-side simulation of a Quidditch-style match.                      *)
(*                                                                         *)
(* Numbers.  The program computes in IEEE doubles.  The model computes in  *)
(* fixed point: a length or a speed is an integer number of tenths of a    *)
(* world unit (Scale), a direction is an integer number of thousandths     *)
(* (Unit), a time step dt is a fraction <<num, den>> of a second, and a    *)
(* timestamp is an integer number of milliseconds.  Every product is       *)
(* rounded toward zero to that grid.  Distances are compared through their *)
(* squares, which is exact on the grid.                                    *)
(*                                                                         *)
(* Coordinates are relative to the point (cx, bounds.min.y + 60, cz) of    *)
(* the arena: every position the program derives from the bounds (team     *)
(* spawns, ball spawns, the floor) is an offset from that point.           *)
(***************************************************************************)
EXTENDS Integers, Sequences, FiniteSets, TLC

\* ------------------------------------------------------------- bounds
NumPlayers == 2       \* entity ids that may connect in Spec
MaxTicks == 2         \* tick() calls explored in one behaviour
MaxInputs == 4        \* onPlayerInput() calls explored in one behaviour
MaxJoins == 2         \* onPlayerJoin() calls explored in one behaviour of Spec
NumJoiners == 5       \* entity ids that may connect in SpecJoin
MaxJoinCalls == 6     \* onPlayerJoin() calls explored in one behaviour of SpecJoin
MaxMarkers == 4       \* goal markers in the arena of SpecDedup

\* ------------------------------------------------------------- numbers
Scale == 10
Unit == 1000

\* a / b rounded toward zero, b > 0
TDiv(a, b) == IF a >= 0 THEN a \div b ELSE -((-a) \div b)

RECURSIVE SqrtSearch(_, _, _)
SqrtSearch(n, lo, hi) ==
  IF lo >= hi THEN lo
  ELSE LET mid == (lo + hi + 1) \div 2
       IN IF mid * mid <= n THEN SqrtSearch(n, mid, hi)
                            ELSE SqrtSearch(n, lo, mid - 1)

\* floor of the square root of n, 0 <= n < 2^30
ISqrt(n) == SqrtSearch(n, 0, 32767)

Vec(a, b, c) == [x |-> a, y |-> b, z |-> c]
Zero3 == Vec(0, 0, 0)

sub(a, b) == Vec(a.x - b.x, a.y - b.y, a.z - b.z)

\* the square of dist(a, b), in Scale^2
Dist2(a, b) == (a.x - b.x) * (a.x - b.x) + (a.y - b.y) * (a.y - b.y)
               + (a.z - b.z) * (a.z - b.z)

\* dist(a, b) < r, r in tenths
Within(a, b, r) == Dist2(a, b) < r * r

\* len(a) in hundredths of a world unit (ten times finer than Scale)
len(a) == ISqrt(100 * (a.x * a.x + a.y * a.y + a.z * a.z))

\* norm(a): a / (len(a) || 1), components in thousandths
norm(a) ==
  LET L == len(a)
  IN IF L = 0 THEN Vec(a.x * Unit, a.y * Unit, a.z * Unit)
     ELSE Vec(TDiv(a.x * 10 * Unit, L), TDiv(a.y * 10 * Unit, L),
              TDiv(a.z * 10 * Unit, L))

\* clampVec(a, 1) of a direction a in thousandths
clampVec(a) ==
  LET L2 == a.x * a.x + a.y * a.y + a.z * a.z
      L == ISqrt(L2)
  IN IF L2 > Unit * Unit
     THEN Vec(TDiv(a.x * Unit, L), TDiv(a.y * Unit, L), TDiv(a.z * Unit, L))
     ELSE a

\* v * dt for dt = <<num, den>>
MulDt(v, dt) == TDiv(v * dt[1], dt[2])

\* dir * k, a direction in thousandths times k world units, in tenths
Push(d, k) == TDiv(d * k * Scale, Unit)

\* ------------------------------------------------------------- config
PhysMaxSpeed == 22 * Scale
PhysAccel == 45 * Scale
PhysLift == 30 * Scale
PhysGravity == 16 * Scale
DragKeepPct == 92
PhysBludgerKnockback == 28
KnockPop == 6 * Scale
PhysStunMs == 800
SCORE_QUAFFLE == 10
SCORE_SNITCH == 150
GoalRadius == 22
DedupThresh == 20
HitRadius == 18
CaptureRadius == 15
PickupRadius == 20
SwingRadius == 24
ThrowPower == 26
ThrowLift == 2
SwingPower == 32
SwingPop == 6 * Scale
SeekSpeed == 12
SpawnOffset == 35 * Scale
FloorY == -20 * Scale

\* v * (1 - Physics.drag)
Drag(v) == TDiv(v * DragKeepPct, 100)

TeamIds == <<"gry", "sly", "rav", "huf">>

TeamSpawn(t) ==
  CASE t = "gry" -> Vec(-SpawnOffset, 0, 0)
    [] t = "sly" -> Vec(SpawnOffset, 0, 0)
    [] t = "rav" -> Vec(0, 0, -SpawnOffset)
    [] t = "huf" -> Vec(0, 0, SpawnOffset)

midAir(h) == Vec(0, h * Scale, 0)

NoId == 0

makeBall(i, k, p) == [id |-> i, kind |-> k, pos |-> p, vel |-> Zero3, owner |-> NoId]

\* a loader that merges no markers
dedupeKeepsAll(points, thresh) == points

RECURSIVE dedupeFrom(_, _, _, _)
dedupeFrom(points, thresh, i, kept) ==
  IF i > Len(points) THEN kept
  ELSE IF \E k \in 1..Len(kept) : Within(kept[k], points[i], thresh)
       THEN dedupeFrom(points, thresh, i + 1, kept)
       ELSE dedupeFrom(points, thresh, i + 1, Append(kept, points[i]))

dedupeClosePositions(points, thresh) == dedupeFrom(points, thresh, 1, << >>)

\* the positions of the goal hoop blocks of the arena, in the order of the
\* block table
ArenaMarkers == << Vec(30, 70, 0), Vec(30, 80, 0), Vec(30, 90, 0) >>

\* extractGoals: the goal hoops of the arena
GoalCenters == dedupeClosePositions(ArenaMarkers, DedupThresh)
goals == [i \in 1..Len(GoalCenters) |-> [center |-> GoalCenters[i], radius |-> GoalRadius]]

\* ------------------------------------------------------------- state
VARIABLES players, balls, score, now, endRounds, inputs, joins, arena, lastOp

vars == <<players, balls, score, now, endRounds, inputs, joins, arena, lastOp>>

PlayerIds == 1..NumPlayers
JoinerIds == 1..NumJoiners

\* arena: the goal markers read from the arena, the merge threshold, and the
\* goal centers extractGoals has kept of them
loadedArena ==
  [points |-> ArenaMarkers, thresh |-> DedupThresh, kept |-> GoalCenters, done |-> TRUE]

\* lastOp: the call that produced the state, with its arguments
NoIn == [none |-> TRUE]
NoCmd == <<NoIn, <<0, 1>> >>
Op(o, id, c) == [op |-> o, id |-> id, in |-> c[1], dt |-> c[2]]

HasPlayer(ps, id) == \E i \in 1..Len(ps) : ps[i].id = id

\* players.get(id), for an id in the registry
PlayerIx(ps, id) == CHOOSE i \in 1..Len(ps) : ps[i].id = id

\* ------------------------------------------------------------- teams
TeamCount(ps, t) == Cardinality({i \in 1..Len(ps) : ps[i].teamId = t})

\* an assignment that ignores the team sizes
autoAssignTeam_First(ps) == TeamIds[1]

\* an assignment that breaks ties by the last team of the list
autoAssignTeam_LastMin(ps) ==
  LET M == {i \in 1..Len(TeamIds) :
              \A j \in 1..Len(TeamIds) : TeamCount(ps, TeamIds[i]) <= TeamCount(ps, TeamIds[j])}
  IN TeamIds[CHOOSE i \in M : \A j \in M : j <= i]

RECURSIVE PickTeam(_, _, _, _)
PickTeam(ps, i, pick, best) ==
  IF i > Len(TeamIds) THEN pick
  ELSE LET c == TeamCount(ps, TeamIds[i])
       IN IF best < 0 \/ c < best THEN PickTeam(ps, i + 1, TeamIds[i], c)
                                  ELSE PickTeam(ps, i + 1, pick, best)

\* best < 0 stands for Infinity
autoAssignTeam(ps) == PickTeam(ps, 1, TeamIds[1], -1)

newPlayer(id, t) ==
  [id |-> id, teamId |-> t, pos |-> TeamSpawn(t), vel |-> Zero3,
   stunnedUntil |-> 0, carrying |-> NoId]

\* players.set(id, ...): a new key is appended, an existing key keeps its place
\* in the iteration order and gets the new value
setPlayer(ps, p) ==
  IF HasPlayer(ps, p.id) THEN [ps EXCEPT ![PlayerIx(ps, p.id)] = p] ELSE Append(ps, p)

\* onPlayerJoin(id) for an id among ids, while fewer than cap calls were made
Join(ids, cap, id) ==
  /\ id \in ids
  /\ joins < cap
  /\ players' = setPlayer(players, newPlayer(id, autoAssignTeam(players)))
  /\ joins' = joins + 1
  /\ lastOp' = Op("join", id, NoCmd)
  /\ UNCHANGED <<balls, score, now, endRounds, inputs, arena>>

onPlayerJoin(id) == Join(PlayerIds, MaxJoins, id)

\* onPlayerLeave(id) for an id among ids; players.delete of an absent id changes
\* nothing
Leave(ids, id) ==
  /\ id \in ids
  /\ HasPlayer(players, id)
  /\ players' = SelectSeq(players, LAMBDA p : p.id # id)
  /\ lastOp' = Op("leave", id, NoCmd)
  /\ UNCHANGED <<balls, score, now, endRounds, inputs, joins, arena>>

onPlayerLeave(id) == Leave(PlayerIds, id)

\* ------------------------------------------------------------- input
NoDir == [none |-> TRUE]

\* balls.find(...): the first of the indices S of the balls that satisfy the
\* predicate, 0 if there is none
FindBall(S) == IF S = {} THEN 0 ELSE CHOOSE i \in S : \A j \in S : i <= j

\* the index of the ball with identifier id, 0 if there is none
BallById(bs, id) == FindBall({i \in 1..Len(bs) : bs[i].id = id})

\* flight forces, drag and clamp, gravity, integration
movePlayer(p, in, dt) ==
  LET mv == clampVec(in.move)
      ax == p.vel.x + TDiv(mv.x * PhysAccel * dt[1], Unit * dt[2])
      az == p.vel.z + TDiv(mv.z * PhysAccel * dt[1], Unit * dt[2])
      y1 == IF in.ascend THEN p.vel.y + MulDt(PhysLift, dt) ELSE p.vel.y
      y2 == IF in.descend THEN y1 - MulDt(PhysLift, dt) ELSE y1
      dx == Drag(ax)
      dz == Drag(az)
      sp2 == dx * dx + dz * dz
      sp == ISqrt(100 * sp2)
      over == sp2 > PhysMaxSpeed * PhysMaxSpeed
      vx == IF over THEN TDiv(dx * PhysMaxSpeed * 10, sp) ELSE dx
      vz == IF over THEN TDiv(dz * PhysMaxSpeed * 10, sp) ELSE dz
      vy == y2 - MulDt(PhysGravity, dt)
  IN [p EXCEPT !.vel = Vec(vx, vy, vz),
               !.pos = Vec(p.pos.x + MulDt(vx, dt), p.pos.y + MulDt(vy, dt),
                           p.pos.z + MulDt(vz, dt))]

\* a pickup that does not look at the owner of the ball
pickupTarget_AnyOwner(bs, p) ==
  FindBall({i \in 1..Len(bs) : /\ Within(bs[i].pos, p.pos, PickupRadius)
                                /\ bs[i].kind \in {"quaffle", "snitch"}})

\* a pickup that does not look at the kind of the ball
pickupTarget_AnyKind(bs, p) ==
  FindBall({i \in 1..Len(bs) : /\ bs[i].owner = NoId
                                /\ Within(bs[i].pos, p.pos, PickupRadius)})

\* the unowned quaffle or snitch the interact picks up: balls.find(...)
pickupTarget(bs, p) ==
  FindBall({i \in 1..Len(bs) : /\ bs[i].owner = NoId
                                /\ Within(bs[i].pos, p.pos, PickupRadius)
                                /\ bs[i].kind \in {"quaffle", "snitch"}})

\* a throw without the upward bias
throwVel_NoBias(p, in) ==
  LET dir == norm(IF in.throwDir = NoDir THEN Vec(p.vel.x, 0, p.vel.z)
                                         ELSE in.throwDir)
  IN Vec(Push(dir.x, ThrowPower), Push(dir.y, ThrowPower), Push(dir.z, ThrowPower))

throwVel(p, in) ==
  LET dir == norm(IF in.throwDir = NoDir THEN Vec(p.vel.x, ThrowLift, p.vel.z)
                                         ELSE in.throwDir)
  IN Vec(Push(dir.x, ThrowPower), Push(dir.y, ThrowPower), Push(dir.z, ThrowPower))

\* an interact that picks up whether or not the player carries a ball
interact_AlwaysPicks(ps, bs, i, in) ==
  LET p == ps[i]
      k == pickupTarget(bs, p)
  IN IF k = 0 THEN [players |-> ps, balls |-> bs]
     ELSE [players |-> [ps EXCEPT ![i].carrying = bs[k].id],
           balls |-> [bs EXCEPT ![k].owner = p.id]]

\* the interact branch: pickup when not carrying, throw when carrying
interact(ps, bs, i, in) ==
  LET p == ps[i]
  IN IF p.carrying = NoId
     THEN LET k == pickupTarget(bs, p)
          IN IF k = 0 THEN [players |-> ps, balls |-> bs]
             ELSE [players |-> [ps EXCEPT ![i].carrying = bs[k].id],
                   balls |-> [bs EXCEPT ![k].owner = p.id]]
     ELSE LET k == BallById(bs, p.carrying)
          IN [players |-> [ps EXCEPT ![i].carrying = NoId],
              balls |-> IF k = 0 THEN bs
                        ELSE [bs EXCEPT ![k].owner = NoId,
                                        ![k].vel = throwVel(p, in),
                                        ![k].pos = p.pos]]

RECURSIVE NearestBall(_, _, _, _, _, _)
NearestBall(bs, pos, kind, i, best, bd) ==
  IF i > Len(bs) THEN best
  ELSE IF bs[i].kind # kind THEN NearestBall(bs, pos, kind, i + 1, best, bd)
  ELSE LET d == Dist2(pos, bs[i].pos)
       IN IF bd < 0 \/ d < bd THEN NearestBall(bs, pos, kind, i + 1, i, d)
                              ELSE NearestBall(bs, pos, kind, i + 1, best, bd)

\* the index of the nearest ball of a kind, 0 if there is none
nearestBallOfKind(bs, pos, kind) == NearestBall(bs, pos, kind, 1, 0, -1)

\* a swing that reaches the nearest bludger however far it is
swing_NoRange(bs, p) ==
  LET k == nearestBallOfKind(bs, p.pos, "bludger")
  IN IF k # 0
     THEN LET dir == norm(sub(bs[k].pos, p.pos))
          IN [bs EXCEPT ![k].vel = Vec(bs[k].vel.x + Push(dir.x, SwingPower),
                                       bs[k].vel.y + SwingPop,
                                       bs[k].vel.z + Push(dir.z, SwingPower))]
     ELSE bs

\* the beater swing: an impulse on the nearest bludger within range
swing(bs, p) ==
  LET k == nearestBallOfKind(bs, p.pos, "bludger")
  IN IF k # 0 /\ Within(bs[k].pos, p.pos, SwingRadius)
     THEN LET dir == norm(sub(bs[k].pos, p.pos))
          IN [bs EXCEPT ![k].vel = Vec(bs[k].vel.x + Push(dir.x, SwingPower),
                                       bs[k].vel.y + SwingPop,
                                       bs[k].vel.z + Push(dir.z, SwingPower))]
     ELSE bs

\* an input handler that registers a player it does not know
inputEffect_Registers(ps, bs, id, in, dt, nowMs) ==
  LET qs == IF HasPlayer(ps, id) THEN ps ELSE Append(ps, newPlayer(id, TeamIds[1]))
      i == PlayerIx(qs, id)
  IN IF nowMs < qs[i].stunnedUntil THEN [players |-> qs, balls |-> bs]
     ELSE LET moved == [qs EXCEPT ![i] = movePlayer(qs[i], in, dt)]
              acted == IF in.interact THEN interact(moved, bs, i, in)
                       ELSE [players |-> moved, balls |-> bs]
          IN [players |-> acted.players,
              balls |-> IF in.beaterSwing THEN swing(acted.balls, acted.players[i])
                        ELSE acted.balls]

\* an input handler without the stun check
inputEffect_NoStunCheck(ps, bs, id, in, dt, nowMs) ==
  IF ~HasPlayer(ps, id) THEN [players |-> ps, balls |-> bs]
  ELSE LET i == PlayerIx(ps, id)
           moved == [ps EXCEPT ![i] = movePlayer(ps[i], in, dt)]
           acted == IF in.interact THEN interact(moved, bs, i, in)
                    ELSE [players |-> moved, balls |-> bs]
       IN [players |-> acted.players,
           balls |-> IF in.beaterSwing THEN swing(acted.balls, acted.players[i])
                     ELSE acted.balls]

\* the state after onPlayerInput(id, in, dt, nowMs)
inputEffect(ps, bs, id, in, dt, nowMs) ==
  IF ~HasPlayer(ps, id) THEN [players |-> ps, balls |-> bs]
  ELSE LET i == PlayerIx(ps, id)
       IN IF nowMs < ps[i].stunnedUntil THEN [players |-> ps, balls |-> bs]
          ELSE LET moved == [ps EXCEPT ![i] = movePlayer(ps[i], in, dt)]
                   acted == IF in.interact THEN interact(moved, bs, i, in)
                            ELSE [players |-> moved, balls |-> bs]
               IN [players |-> acted.players,
                   balls |-> IF in.beaterSwing THEN swing(acted.balls, acted.players[i])
                             ELSE acted.balls]

\* ------------------------------------------------------------- tick
TickDt == <<1, 2>>
TickMs == (1000 * TickDt[1]) \div TickDt[2]

\* sin(5t), cos(7t), sin(6t) in thousandths at t = nowMs / 1000
Wave(nowMs) ==
  CASE nowMs = 0 -> <<0, 1000, 0>>
    [] nowMs = 500 -> <<598, -936, 141>>
    [] nowMs = 1000 -> <<-959, 754, -279>>
    [] nowMs = 1500 -> <<938, -476, 412>>
    [] nowMs = 2000 -> <<-544, 137, -537>>
    [] nowMs = 2500 -> <<-66, 219, 650>>
    [] nowMs = 3000 -> <<650, -548, -751>>
    [] nowMs = 3500 -> <<-976, 806, 837>>
    [] nowMs = 4000 -> <<913, -963, -906>>

integrateBall(b, dt) ==
  LET vx == Drag(b.vel.x)
      vy == Drag(b.vel.y - MulDt(PhysGravity, dt))
      vz == Drag(b.vel.z)
  IN [b EXCEPT !.vel = Vec(vx, vy, vz),
               !.pos = Vec(b.pos.x + MulDt(vx, dt), b.pos.y + MulDt(vy, dt),
                           b.pos.z + MulDt(vz, dt))]

RECURSIVE NearestPl(_, _, _, _, _)
NearestPl(ps, pos, i, best, bd) ==
  IF i > Len(ps) THEN best
  ELSE LET d == Dist2(pos, ps[i].pos)
       IN IF bd < 0 \/ d < bd THEN NearestPl(ps, pos, i + 1, i, d)
                              ELSE NearestPl(ps, pos, i + 1, best, bd)

\* the index of the nearest player, 0 when the registry is empty
nearestPlayer(ps, pos) == NearestPl(ps, pos, 1, 0, -1)

\* dir * k * dt, in tenths
PushDt(d, k, dt) == TDiv(d * k * Scale * dt[1], Unit * dt[2])

\* a seek that homes on the first player of the registry
bludgerSeek_First(ps, b, dt) ==
  IF Len(ps) = 0 THEN b
  ELSE LET dir == norm(sub(ps[1].pos, b.pos))
       IN [b EXCEPT !.vel = Vec(b.vel.x + PushDt(dir.x, SeekSpeed, dt),
                                b.vel.y + PushDt(dir.y, SeekSpeed, dt),
                                b.vel.z + PushDt(dir.z, SeekSpeed, dt))]

bludgerSeek(ps, b, dt) ==
  LET t == nearestPlayer(ps, b.pos)
  IN IF t = 0 THEN b
     ELSE LET dir == norm(sub(ps[t].pos, b.pos))
          IN [b EXCEPT !.vel = Vec(b.vel.x + PushDt(dir.x, SeekSpeed, dt),
                                   b.vel.y + PushDt(dir.y, SeekSpeed, dt),
                                   b.vel.z + PushDt(dir.z, SeekSpeed, dt))]

snitchErratic(b, nowMs, dt) ==
  LET w == Wave(nowMs)
  IN [b EXCEPT !.vel = Vec(b.vel.x + PushDt(w[1], 3, dt),
                           b.vel.y + PushDt(w[2], 4, dt),
                           b.vel.z + PushDt(w[3], 3, dt))]

\* the ball loop of tick
updateBall(ps, b, dt, nowMs) ==
  IF b.owner # NoId THEN b
  ELSE LET b1 == integrateBall(b, dt)
           b2 == IF b1.kind = "bludger" THEN bludgerSeek(ps, b1, dt) ELSE b1
       IN IF b2.kind = "snitch" THEN snitchErratic(b2, nowMs, dt) ELSE b2

updateBalls(ps, bs, dt, nowMs) == [k \in 1..Len(bs) |-> updateBall(ps, bs[k], dt, nowMs)]

\* ------------------------------------------------------------- interactions
\* a world: the part of the state resolveInteractions reads and writes
World(ps, bs, sc, er) == [players |-> ps, balls |-> bs, score |-> sc, endRounds |-> er]

\* a goal that costs the team its award
scoreGoal_Deduct(w, i, k, g) ==
  LET p == w.players[i]
  IN IF Within(p.pos, goals[g].center, goals[g].radius)
     THEN [w EXCEPT !.score[p.teamId] = @ - SCORE_QUAFFLE,
                    !.balls[k].owner = NoId,
                    !.balls[k].pos = midAir(8),
                    !.balls[k].vel = Zero3,
                    !.players[i].carrying = NoId]
     ELSE w

\* a goal that leaves the ball with its carrier
scoreGoal_KeepBall(w, i, k, g) ==
  LET p == w.players[i]
  IN IF Within(p.pos, goals[g].center, goals[g].radius)
     THEN [w EXCEPT !.score[p.teamId] = @ + SCORE_QUAFFLE]
     ELSE w

\* the body of the goal loop for player i, carried ball k and goal g
scoreGoal(w, i, k, g) ==
  LET p == w.players[i]
  IN IF Within(p.pos, goals[g].center, goals[g].radius)
     THEN [w EXCEPT !.score[p.teamId] = @ + SCORE_QUAFFLE,
                    !.balls[k].owner = NoId,
                    !.balls[k].pos = midAir(8),
                    !.balls[k].vel = Zero3,
                    !.players[i].carrying = NoId]
     ELSE w

\* a goal loop that stops at the first goal the carrier is in
RECURSIVE goalLoop_FirstOnly(_, _, _, _)
goalLoop_FirstOnly(w, i, k, g) ==
  IF g > Len(goals) THEN w
  ELSE IF Within(w.players[i].pos, goals[g].center, goals[g].radius)
       THEN scoreGoal(w, i, k, g)
       ELSE goalLoop_FirstOnly(w, i, k, g + 1)

RECURSIVE goalLoop(_, _, _, _)
goalLoop(w, i, k, g) ==
  IF g > Len(goals) THEN w ELSE goalLoop(scoreGoal(w, i, k, g), i, k, g + 1)

\* a goal check that does not look at the kind of the carried ball
goalsOfPlayer_AnyBall(w, i) ==
  LET p == w.players[i]
  IN IF p.carrying = NoId THEN w
     ELSE LET k == BallById(w.balls, p.carrying)
          IN IF k # 0 THEN goalLoop(w, i, k, 1) ELSE w

\* the body of the first player loop of resolveInteractions
goalsOfPlayer(w, i) ==
  LET p == w.players[i]
  IN IF p.carrying = NoId THEN w
     ELSE LET k == BallById(w.balls, p.carrying)
          IN IF k # 0 /\ w.balls[k].kind = "quaffle" THEN goalLoop(w, i, k, 1) ELSE w

RECURSIVE goalScoring(_, _)
goalScoring(w, i) ==
  IF i > Len(w.players) THEN w ELSE goalScoring(goalsOfPlayer(w, i), i + 1)

\* a knockback that does not stun
knockback_NoStun(w, k, i, nowMs) ==
  LET b == w.balls[k]
      p == w.players[i]
  IN IF Within(b.pos, p.pos, HitRadius)
     THEN LET d == norm(sub(p.pos, b.pos))
              v == Vec(p.vel.x + Push(d.x, PhysBludgerKnockback), p.vel.y + KnockPop,
                       p.vel.z + Push(d.z, PhysBludgerKnockback))
              c == IF p.carrying = NoId THEN 0
                   ELSE BallById(w.balls, p.carrying)
              bs == IF c = 0 THEN w.balls
                    ELSE [w.balls EXCEPT ![c].owner = NoId, ![c].vel = v, ![c].pos = p.pos]
          IN [w EXCEPT !.players[i].vel = v,
                       !.players[i].carrying = NoId,
                       !.balls = bs]
     ELSE w

\* the body of the knockback loop for bludger k and player i
knockback(w, k, i, nowMs) ==
  LET b == w.balls[k]
      p == w.players[i]
  IN IF Within(b.pos, p.pos, HitRadius)
     THEN LET d == norm(sub(p.pos, b.pos))
              v == Vec(p.vel.x + Push(d.x, PhysBludgerKnockback), p.vel.y + KnockPop,
                       p.vel.z + Push(d.z, PhysBludgerKnockback))
              c == IF p.carrying = NoId THEN 0
                   ELSE BallById(w.balls, p.carrying)
              bs == IF c = 0 THEN w.balls
                    ELSE [w.balls EXCEPT ![c].owner = NoId, ![c].vel = v, ![c].pos = p.pos]
          IN [w EXCEPT !.players[i].vel = v,
                       !.players[i].stunnedUntil = nowMs + PhysStunMs,
                       !.players[i].carrying = NoId,
                       !.balls = bs]
     ELSE w

RECURSIVE knockPlayers(_, _, _, _)
knockPlayers(w, k, i, nowMs) ==
  IF i > Len(w.players) THEN w
  ELSE knockPlayers(knockback(w, k, i, nowMs), k, i + 1, nowMs)

RECURSIVE bludgerHits(_, _, _)
bludgerHits(w, k, nowMs) ==
  IF k > Len(w.balls) THEN w
  ELSE IF w.balls[k].kind = "bludger"
       THEN bludgerHits(knockPlayers(w, k, 1, nowMs), k + 1, nowMs)
       ELSE bludgerHits(w, k + 1, nowMs)

\* endRound(): the final scoreboard is broadcast; endRounds counts the calls
endRound(w) == [w EXCEPT !.endRounds = @ + 1]

\* a capture by the player nearest to the snitch
firstCatcher_Nearest(w, s) ==
  LET S == {i \in 1..Len(w.players) : Within(w.balls[s].pos, w.players[i].pos, CaptureRadius)}
  IN IF S = {} THEN 0
     ELSE CHOOSE i \in S : \A j \in S :
            \/ Dist2(w.balls[s].pos, w.players[i].pos) < Dist2(w.balls[s].pos, w.players[j].pos)
            \/ /\ Dist2(w.balls[s].pos, w.players[i].pos) = Dist2(w.balls[s].pos, w.players[j].pos)
               /\ i <= j

\* the first player within the capture radius of the snitch, in registry order
firstCatcher(w, s) ==
  LET S == {i \in 1..Len(w.players) : Within(w.balls[s].pos, w.players[i].pos, CaptureRadius)}
  IN IF S = {} THEN 0 ELSE CHOOSE i \in S : \A j \in S : i <= j

snitchCapture(w) ==
  LET s == FindBall({k \in 1..Len(w.balls) : w.balls[k].kind = "snitch"})
  IN IF s = 0 THEN w
     ELSE LET i == firstCatcher(w, s)
          IN IF i = 0 THEN w
             ELSE endRound([w EXCEPT !.score[w.players[i].teamId] = @ + SCORE_SNITCH])

\* a resolver that handles the bludgers before the goals
resolveInteractions_HitsFirst(w, nowMs) ==
  snitchCapture(goalScoring(bludgerHits(w, 1, nowMs), 1))

resolveInteractions(w, nowMs) == snitchCapture(bludgerHits(goalScoring(w, 1), 1, nowMs))

\* a floor that stops the whole flight of the player it catches
updatePlayerPhysics_Stops(p) ==
  IF p.pos.y < FloorY
  THEN [p EXCEPT !.pos.y = FloorY, !.vel = Zero3]
  ELSE p

updatePlayerPhysics(p) ==
  IF p.pos.y < FloorY
  THEN [p EXCEPT !.pos.y = FloorY, !.vel.y = IF p.vel.y > 0 THEN p.vel.y ELSE 0]
  ELSE p

\* the world after tick(dt, nowMs)
tickEffect(w, dt, nowMs) ==
  LET w1 == [w EXCEPT !.balls = updateBalls(w.players, w.balls, dt, nowMs)]
      w2 == resolveInteractions(w1, nowMs)
  IN [w2 EXCEPT !.players = [i \in 1..Len(w2.players) |-> updatePlayerPhysics(w2.players[i])]]

tick(dt, nowMs) ==
  /\ now < MaxTicks * TickMs
  /\ LET w == tickEffect(World(players, balls, score, endRounds), dt, nowMs)
     IN /\ players' = w.players
        /\ balls' = w.balls
        /\ score' = w.score
        /\ endRounds' = w.endRounds
  /\ now' = nowMs
  /\ lastOp' = Op("tick", NoId, <<NoIn, dt>>)
  /\ UNCHANGED <<inputs, joins, arena>>

\* ------------------------------------------------------------- the inputs explored
TravelDt == <<17, 22>>
HopDt == <<3, 4>>
ActDt == <<0, 1>>

Intent(mv, asc, desc, act, sw, dir) ==
  [move |-> mv, ascend |-> asc, descend |-> desc, interact |-> act,
   beaterSwing |-> sw, throwDir |-> dir]

\* the horizontal direction from a team's spawn to the middle of the pitch
Toward(t) ==
  CASE t = "gry" -> Vec(Unit, 0, 0)
    [] t = "sly" -> Vec(-Unit, 0, 0)
    [] t = "rav" -> Vec(0, 0, Unit)
    [] t = "huf" -> Vec(0, 0, -Unit)

\* two thirds of full thrust against the direction of travel
Brake(t) == LET d == Toward(t) IN Vec(TDiv(-2 * d.x, 3), 0, TDiv(-2 * d.z, 3))

\* a player is over the middle of the pitch, where the balls are spawned
MidRadius == 5 * Scale
OverMiddle(p) == p.pos.x * p.pos.x + p.pos.z * p.pos.z < MidRadius * MidRadius

Travel(t, asc, act) == <<Intent(Toward(t), asc, FALSE, act, FALSE, NoDir), TravelDt>>
Hop(t) == <<Intent(Brake(t), TRUE, FALSE, TRUE, FALSE, NoDir), HopDt>>
Act(act, sw) == <<Intent(Zero3, FALSE, FALSE, act, sw, NoDir), ActDt>>

\* what the client of player p sends, as <<intent, dt>>: it flies toward the
\* middle of the pitch while away from it, and plays the balls once over it
Commands(p) ==
  IF OverMiddle(p) THEN {Hop(p.teamId), Act(TRUE, FALSE), Act(FALSE, TRUE)}
  ELSE {Travel(p.teamId, TRUE, FALSE), Travel(p.teamId, FALSE, FALSE),
        Travel(p.teamId, FALSE, TRUE)}

\* the commands that may arrive for entity id
CommandsFor(ps, id) ==
  IF HasPlayer(ps, id) THEN Commands(ps[PlayerIx(ps, id)]) ELSE {Act(TRUE, FALSE)}

onPlayerInput(id, in, dt, nowMs) ==
  /\ inputs < MaxInputs
  /\ LET r == inputEffect(players, balls, id, in, dt, nowMs)
     IN /\ players' = r.players
        /\ balls' = r.balls
  /\ inputs' = inputs + 1
  /\ lastOp' = Op("input", id, <<in, dt>>)
  /\ UNCHANGED <<score, now, endRounds, joins, arena>>

Init ==
  /\ players = << >>
  /\ balls = << makeBall(1, "quaffle", midAir(8)), makeBall(2, "bludger", midAir(10)),
                makeBall(3, "bludger", midAir(12)), makeBall(4, "snitch", midAir(14)) >>
  /\ score = [t \in {"gry", "sly", "rav", "huf"} |-> 0]
  /\ now = 0
  /\ endRounds = 0
  /\ inputs = 0
  /\ joins = 0
  /\ arena = loadedArena
  /\ lastOp = Op("init", NoId, NoCmd)

Next ==
  \/ \E id \in PlayerIds : onPlayerJoin(id)
  \/ \E id \in PlayerIds : onPlayerLeave(id)
  \/ \E id \in PlayerIds : \E c \in CommandsFor(players, id) :
        onPlayerInput(id, c[1], c[2], now)
  \/ tick(TickDt, now + TickMs)

Spec == Init /\ [][Next]_vars
\* ------------------------------------------------------------- joins only
InitJoin == Init

NextJoin == \E id \in JoinerIds : Join(JoinerIds, MaxJoinCalls, id)

SpecJoin == InitJoin /\ [][NextJoin]_vars

\* ------------------------------------------------------------- joins and leaves
InitRoster == Init

NextRoster ==
  \/ \E id \in JoinerIds : Join(JoinerIds, MaxJoinCalls, id)
  \/ \E id \in JoinerIds : Leave(JoinerIds, id)

SpecRoster == InitRoster /\ [][NextRoster]_vars

\* ------------------------------------------------------------- the arena loader
\* the block positions a goal marker may have, and the marker lists explored
MarkerGrid == {Vec(10 * x, 10 * y, 0) : x \in 0..3, y \in 0..1}
MarkerLists == UNION {[1..n -> MarkerGrid] : n \in 0..MaxMarkers}
Thresholds == {15, DedupThresh}

InitDedup ==
  /\ players = << >>
  /\ balls = << >>
  /\ score = [t \in {"gry", "sly", "rav", "huf"} |-> 0]
  /\ now = 0
  /\ endRounds = 0
  /\ inputs = 0
  /\ joins = 0
  /\ \E ps \in MarkerLists, th \in Thresholds :
       arena = [points |-> ps, thresh |-> th, kept |-> << >>, done |-> FALSE]
  /\ lastOp = Op("init", NoId, NoCmd)

extractGoals ==
  /\ ~arena.done
  /\ arena' = [arena EXCEPT !.kept = dedupeClosePositions(arena.points, arena.thresh),
                            !.done = TRUE]
  /\ lastOp' = Op("extractGoals", NoId, NoCmd)
  /\ UNCHANGED <<players, balls, score, now, endRounds, inputs, joins>>

NextDedup == extractGoals

SpecDedup == InitDedup /\ [][NextDedup]_vars

\* ------------------------------------------------------------- a match in progress
\* The last tick of a match that has been under way: the players have been
\* steered over the middle of the pitch, the balls have been carried, thrown
\* and batted about it, nobody has scored yet.  One input and one tick remain.
SceneSpots == {Vec(10, 72, 0), Vec(20, 80, 0), Vec(-10, 72, 0), Vec(0, 60, 0)}
SceneVels == {Zero3, Vec(0, -60, 0), Vec(220, 0, 0)}
SceneBludgers == {<<Vec(0, 100, 0), Vec(0, 300, 0)>>, <<Vec(0, 100, 0), Vec(0, 120, 0)>>,
                  <<Vec(0, 300, 0), Vec(0, 320, 0)>>}
SceneSnitch == {Vec(10, 116, 0), Vec(10, 84, 0), Vec(0, 400, 0)}
SceneQuaffle == {midAir(8), Vec(30, 106, 0)}
SceneHolds == {"nothing", "quaffle", "snitch", "stunned"}
SceneMates == {<< >>, <<"gry", Vec(10, 72, 0)>>, <<"sly", Vec(10, 72, 0)>>,
               <<"sly", Vec(-10, 72, 0)>>}

sceneNow == (MaxTicks - 1) * TickMs

InitScene ==
  \E s \in SceneSpots, v \in SceneVels, h \in SceneHolds, m \in SceneMates,
     bl \in SceneBludgers, sn \in SceneSnitch, q \in SceneQuaffle :
    /\ h = "quaffle" => q = midAir(8)
    /\ players =
         << [newPlayer(1, "gry") EXCEPT
               !.pos = s, !.vel = v,
               !.carrying = CASE h = "quaffle" -> 1 [] h = "snitch" -> 4 [] OTHER -> NoId,
               !.stunnedUntil = IF h = "stunned" THEN sceneNow + TickMs + 100 ELSE 0] >>
         \o (IF m = << >> THEN << >>
             ELSE << [newPlayer(2, m[1]) EXCEPT !.pos = m[2]] >>)
    /\ balls =
         << [makeBall(1, "quaffle", q) EXCEPT
               !.owner = IF h = "quaffle" THEN 1 ELSE NoId],
            makeBall(2, "bludger", bl[1]),
            makeBall(3, "bludger", bl[2]),
            [makeBall(4, "snitch", sn) EXCEPT
               !.owner = IF h = "snitch" THEN 1 ELSE NoId] >>
    /\ score = [t \in {"gry", "sly", "rav", "huf"} |-> 0]
    /\ now = sceneNow
    /\ endRounds = 0
    /\ inputs = MaxInputs - 1
    /\ joins = MaxJoins
    /\ arena = loadedArena
    /\ lastOp = Op("init", NoId, NoCmd)

\* the aim vectors a client sends with an interact: up and away, and none
AimDirs == {Vec(0, 30, 40), Zero3}
Aimed(dir) == <<Intent(Zero3, FALSE, FALSE, TRUE, FALSE, dir), ActDt>>

\* a short frame of level flight along x with no button pressed
GlideDt == <<1, 10>>
Glide == <<Intent(Vec(Unit, 0, 0), FALSE, FALSE, FALSE, FALSE, NoDir), GlideDt>>

NextScene ==
  \/ \E id \in PlayerIds : \E c \in CommandsFor(players, id) \cup {Aimed(d) : d \in AimDirs} \cup {Glide} :
        onPlayerInput(id, c[1], c[2], now)
  \/ tick(TickDt, now + TickMs)

SpecScene == InitScene /\ [][NextScene]_vars

\* ------------------------------------------------------------- properties
Live == 1..Len(players)
Balls == 1..Len(balls)
Stunned(p, nowMs) == nowMs < p.stunnedUntil

\* C1: for every player in the registry and every ball, the player carries the
\* ball if and only if the ball is owned by the player.
C1_OwnershipSymmetry ==
  \A i \in Live : \A k \in Balls :
    (players[i].carrying = balls[k].id) <=> (balls[k].owner = players[i].id)

\* C2: the snitch capture award is granted, and the round ended, at most once
\* in a match.
C2_SingleCapture == endRounds <= 1

\* C3: once the snitch has been captured no step changes a score or the
\* position of a ball or of a player.
C3_EndedIsTerminal ==
  [][endRounds >= 1 =>
       /\ score' = score
       /\ \A k \in Balls : balls'[k].pos = balls[k].pos
       /\ \A i \in Live : \A j \in 1..Len(players') :
            players'[j].id = players[i].id => players'[j].pos = players[i].pos]_vars

\* C4: every team's score is a natural number, no step lowers it, and only a
\* tick changes it.
C4_ScoreMonotone ==
  /\ [](\A t \in DOMAIN score : score[t] \in Nat)
  /\ [][/\ \A t \in DOMAIN score : score'[t] >= score[t]
        /\ score' # score => lastOp'.op = "tick"]_vars

C4_Witness == lastOp.op = "tick" /\ \E t \in DOMAIN score : score[t] > 0

\* C5: a ball that becomes owned becomes owned by the player whose input was
\* processed, who then carries it; and an input of a player never changes the
\* owner of a ball another player owns, never makes the sender carry that ball,
\* and never changes what another player carries.
C5_PickupExclusive ==
  [][lastOp'.op = "input" =>
       /\ Len(players') = Len(players)
       /\ \A k \in Balls :
            /\ (balls[k].owner = NoId /\ balls'[k].owner # NoId) =>
                 /\ balls'[k].owner = lastOp'.id
                 /\ \A i \in Live : (players'[i].carrying = balls[k].id) <=>
                                    (players[i].id = lastOp'.id)
            /\ (balls[k].owner # NoId /\ balls[k].owner # lastOp'.id) =>
                 /\ balls'[k].owner = balls[k].owner
                 /\ \A i \in Live : players[i].id = lastOp'.id =>
                                    players'[i].carrying # balls[k].id
       /\ \A i \in Live : players[i].id # lastOp'.id =>
                          players'[i].carrying = players[i].carrying]_vars

\* the second of two players reaching for the same ball: it is unstunned, carries
\* nothing, interacted within pickup radius of a ball the other player owns
C5_Witness ==
  /\ lastOp.op = "input" /\ lastOp.in.interact
  /\ \E i \in Live : \E j \in Live : \E k \in Balls :
       /\ players[i].id = lastOp.id /\ j # i
       /\ ~Stunned(players[i], now) /\ players[i].carrying = NoId
       /\ balls[k].owner = players[j].id /\ players[j].carrying = balls[k].id
       /\ Within(balls[k].pos, players[i].pos, PickupRadius)
       /\ Within(balls[k].pos, players[j].pos, PickupRadius)

\* C6: an input delivered to a stunned player changes no player, no ball and
\* no score.
C6_StunGating ==
  [][(/\ lastOp'.op = "input"
      /\ \E i \in Live : players[i].id = lastOp'.id /\ Stunned(players[i], now'))
     => players' = players /\ balls' = balls /\ score' = score]_vars

C6_Witness ==
  /\ lastOp.op = "input"
  /\ \E i \in Live : /\ players[i].id = lastOp.id /\ Stunned(players[i], now)
                     /\ lastOp.in.interact
                     /\ pickupTarget(balls, players[i]) # 0

\* C7: every ball's owner is absent or a player in the registry.
C7_OwnerIsRegistered ==
  \A k \in Balls : balls[k].owner = NoId \/ HasPlayer(players, balls[k].owner)

\* the goals whose radius holds the position of player p
GoalsHolding(p) == {g \in 1..Len(goals) : Within(p.pos, goals[g].center, goals[g].radius)}

\* the players within capture radius of the snitch as the resolver of the step sees it
Catchers == {j \in Live : \E s \in Balls : /\ balls[s].kind = "snitch"
                                            /\ Within(balls'[s].pos, players[j].pos, CaptureRadius)}

\* what the capture step of the step's resolver pass credits to team t
CaptureAward(t) ==
  IF Catchers # {} /\ players[CHOOSE j \in Catchers : \A m \in Catchers : j <= m].teamId = t
  THEN SCORE_SNITCH ELSE 0

\* player i carries quaffle k inside exactly one goal when the tick's resolver runs
ScoresOnce(i, k) ==
  /\ balls[k].kind = "quaffle" /\ players[i].carrying = balls[k].id
  /\ Cardinality(GoalsHolding(players[i])) = 1

\* C8 as stated: a resolver pass that finds a player carrying the quaffle inside
\* exactly one goal raises the team's score by exactly the goal award, leaves the
\* ball unowned at its respawn position with zero velocity and clears the
\* player's carrying link.
C8_GoalReset ==
  [][lastOp'.op = "tick" =>
       \A i \in Live : \A k \in Balls : ScoresOnce(i, k) =>
         /\ score'[players[i].teamId] = score[players[i].teamId] + SCORE_QUAFFLE
         /\ balls'[k].owner = NoId /\ balls'[k].pos = midAir(8) /\ balls'[k].vel = Zero3
         /\ players'[i].carrying = NoId]_vars

\* C8 amended: the goal step adds exactly the goal award; the score of the team
\* rises by that award plus the capture award when the capture step of the same
\* pass credits the same team; the ball is reset and the link cleared.
C8_GoalResetAmended ==
  [][lastOp'.op = "tick" =>
       \A i \in Live : \A k \in Balls : ScoresOnce(i, k) =>
         /\ score'[players[i].teamId] =
              score[players[i].teamId] + SCORE_QUAFFLE + CaptureAward(players[i].teamId)
         /\ balls'[k].owner = NoId /\ balls'[k].pos = midAir(8) /\ balls'[k].vel = Zero3
         /\ players'[i].carrying = NoId]_vars

\* a goal and a capture credited to the same team in one pass
C8_Witness ==
  /\ lastOp.op = "tick"
  /\ \E i \in Live : \E k \in Balls :
       /\ Cardinality(GoalsHolding(players[i])) = 1
       /\ players[i].carrying = NoId
       /\ balls[k].kind = "quaffle" /\ balls[k].owner = NoId
       /\ balls[k].pos = midAir(8) /\ balls[k].vel = Zero3
       /\ score[players[i].teamId] = SCORE_QUAFFLE + SCORE_SNITCH

\* the bludgers within hit radius of player i as the resolver of the step sees them
Hitters(i) == {k \in Balls : /\ balls[k].kind = "bludger"
                             /\ Within(balls'[k].pos, players[i].pos, HitRadius)}

\* the velocity of player i after the knockback of the first bludger in range
FirstKnock(i) ==
  LET k == CHOOSE a \in Hitters(i) : \A b \in Hitters(i) : a <= b
      d == norm(sub(players[i].pos, balls'[k].pos))
  IN Vec(players[i].vel.x + Push(d.x, PhysBludgerKnockback), players[i].vel.y + KnockPop,
         players[i].vel.z + Push(d.z, PhysBludgerKnockback))

\* C9 as stated: a resolver pass at time now that finds a bludger within hit
\* radius of an unstunned player sets the player's stunnedUntil to now + stunMs;
\* a ball the player carried is unowned, the carrying link is cleared, and the
\* released ball's velocity is not zero.
C9_Knockback ==
  [][lastOp'.op = "tick" =>
       \A i \in Live : (~Stunned(players[i], now') /\ Hitters(i) # {}) =>
         /\ players'[i].stunnedUntil = now' + PhysStunMs
         /\ \A c \in Balls : players[i].carrying = balls[c].id =>
              /\ balls'[c].owner = NoId /\ players'[i].carrying = NoId
              /\ balls'[c].vel # Zero3]_vars

\* C9 amended: stunnedUntil is now + stunMs, the carried ball is unowned and the
\* link cleared; a quaffle the goal step of the same pass has reset rests at its
\* respawn position, any other released ball lies at the player's position with
\* the player's velocity after the first knockback (zero when the player's
\* velocity was the opposite of that impulse).
C9_KnockbackAmended ==
  [][lastOp'.op = "tick" =>
       \A i \in Live : (~Stunned(players[i], now') /\ Hitters(i) # {}) =>
         /\ players'[i].stunnedUntil = now' + PhysStunMs
         /\ \A c \in Balls : players[i].carrying = balls[c].id =>
              /\ balls'[c].owner = NoId /\ players'[i].carrying = NoId
              /\ IF balls[c].kind = "quaffle" /\ GoalsHolding(players[i]) # {}
                 THEN balls'[c].pos = midAir(8) /\ balls'[c].vel = Zero3
                 ELSE balls'[c].pos = players[i].pos /\ balls'[c].vel = FirstKnock(i)]_vars

\* a carrier knocked by a bludger, its ball released where it was
C9_Witness ==
  /\ lastOp.op = "tick"
  /\ \E i \in Live : \E c \in Balls :
       /\ players[i].stunnedUntil = now + PhysStunMs /\ players[i].carrying = NoId
       /\ balls[c].kind # "bludger" /\ balls[c].owner = NoId
       /\ balls[c].pos = players[i].pos

\* C10: after N calls of onPlayerJoin and no leave, no team has more than
\* ceil(N / teamCount) players.
C10_AssignFair ==
  \A t \in 1..Len(TeamIds) :
    TeamCount(players, TeamIds[t]) * Len(TeamIds) < joins + Len(TeamIds)

\* more joins than teams, with a team of two
C10_Witness ==
  /\ joins > Len(TeamIds) /\ Len(players) > Len(TeamIds)
  /\ \E t \in 1..Len(TeamIds) : TeamCount(players, TeamIds[t]) = 2
\* the teams with the fewest players in the registry
MinTeams == {i \in 1..Len(TeamIds) :
               \A j \in 1..Len(TeamIds) :
                 TeamCount(players, TeamIds[i]) <= TeamCount(players, TeamIds[j])}

\* C11: a join puts the player in a team whose player count before the call is
\* the minimum over all teams, the earliest such team of the team list, at that
\* team's spawn point, at rest, with stunnedUntil = 0 and carrying nothing; no
\* other player changes.
C11_JoinAssignsMinTeam ==
  [][lastOp'.op = "join" =>
       /\ HasPlayer(players', lastOp'.id)
       /\ LET q == players'[PlayerIx(players', lastOp'.id)]
              t == CHOOSE i \in MinTeams : \A j \in MinTeams : i <= j
          IN /\ q.teamId = TeamIds[t]
             /\ q.pos = TeamSpawn(TeamIds[t]) /\ q.vel = Zero3
             /\ q.stunnedUntil = 0 /\ q.carrying = NoId
       /\ \A i \in Live : players[i].id # lastOp'.id => players'[i] = players[i]]_vars

\* a join that follows a leave and fills the gap the leaver left in a team in
\* the middle of the list
C11_Witness ==
  /\ lastOp.op = "join" /\ joins > Len(players)
  /\ \E i \in Live : /\ players[i].id = lastOp.id /\ i = Len(players)
                     /\ players[i].teamId = TeamIds[3]
                     /\ TeamCount(players, TeamIds[4]) = 1

\* what the goal step of the step's resolver pass credits to team t: the goal
\* award once for every goal that holds a player of t carrying the quaffle
GoalAward(t) ==
  LET C == {i \in Live : /\ players[i].teamId = t
                         /\ \E k \in Balls : /\ balls[k].kind = "quaffle"
                                             /\ players[i].carrying = balls[k].id}
  IN IF C = {} THEN 0
     ELSE SCORE_QUAFFLE * Cardinality(GoalsHolding(players[CHOOSE i \in C : TRUE]))

\* C12: in a tick with a player within capture radius of the snitch, the team of
\* the first such player in registry order is credited the capture award, no
\* other team is, and the round is ended once; with no player in range no team
\* is credited it.
C12_CaptureRule ==
  [][lastOp'.op = "tick" =>
       /\ \A t \in DOMAIN score : score'[t] - score[t] - GoalAward(t) = CaptureAward(t)
       /\ endRounds' - endRounds = IF Catchers = {} THEN 0 ELSE 1
       /\ Catchers # {} =>
            Cardinality({t \in DOMAIN score : score'[t] - score[t] - GoalAward(t) = SCORE_SNITCH}) = 1]_vars

\* two players of different teams in range of the snitch, the second in the
\* registry the nearer one, the team of the first credited
C12_Witness ==
  /\ lastOp.op = "tick" /\ endRounds = 1
  /\ \E i \in Live : \E j \in Live : \E s \in Balls :
       /\ i < j /\ balls[s].kind = "snitch"
       /\ Within(balls[s].pos, players[i].pos, CaptureRadius)
       /\ Dist2(balls[s].pos, players[j].pos) < Dist2(balls[s].pos, players[i].pos)
       /\ players[i].teamId # players[j].teamId
       /\ score[players[i].teamId] = SCORE_SNITCH /\ score[players[j].teamId] = 0

\* C13: an input for an id that is not in the registry changes no player, no
\* ball and no score.
C13_UnknownIdNoOp ==
  [][(lastOp'.op = "input" /\ ~HasPlayer(players, lastOp'.id))
     => players' = players /\ balls' = balls /\ score' = score]_vars

\* an input for a player that has left, while the ball it carried is still
\* within its reach and another player is in the registry
C13_Witness ==
  /\ lastOp.op = "input" /\ ~HasPlayer(players, lastOp.id) /\ lastOp.in.interact
  /\ Len(players) > 0
  /\ \E k \in Balls : balls[k].owner = lastOp.id

\* C14: in a tick, the score of a team rises beyond the capture award only if
\* a player of that team carries the quaffle within the radius of a goal when
\* the resolver runs; it never falls.
C14_GoalsOnlyByCarriers ==
  [][lastOp'.op = "tick" =>
       \A t \in DOMAIN score :
         /\ score'[t] - score[t] - CaptureAward(t) >= 0
         /\ score'[t] - score[t] - CaptureAward(t) > 0 =>
              \E i \in Live : \E k \in Balls :
                /\ players[i].teamId = t
                /\ balls[k].kind = "quaffle" /\ players[i].carrying = balls[k].id
                /\ GoalsHolding(players[i]) # {}]_vars

\* a tick without a goal award, though a player carrying the snitch is inside
\* a goal and the unowned quaffle lies inside a goal
C14_Witness ==
  /\ lastOp.op = "tick"
  /\ \A t \in DOMAIN score : score[t] \in {0, SCORE_SNITCH}
  /\ \E i \in Live : \E s \in Balls :
       /\ GoalsHolding(players[i]) # {}
       /\ balls[s].kind = "snitch" /\ players[i].carrying = balls[s].id
  /\ \E k \in Balls : /\ balls[k].kind = "quaffle" /\ balls[k].owner = NoId
                      /\ \E g \in 1..Len(goals) :
                           Within(balls[k].pos, goals[g].center, goals[g].radius)

\* the index of the first occurrence of point c in the marker list
FirstSeen(c) == CHOOSE i \in 1..Len(arena.points) :
                  /\ arena.points[i] = c
                  /\ \A j \in 1..(i - 1) : arena.points[j] # c

\* C15: the goal centers kept of a marker list hold no two centers closer than
\* the threshold, every marker is closer than the threshold to a kept center,
\* the kept centers are markers in first-seen order, and markers that are
\* pairwise closer than the threshold (in particular pairwise within 1.5 units
\* under the loader's threshold) leave exactly one center.
C15_Dedup ==
  arena.done =>
    LET pts == arena.points
        kept == arena.kept
    IN /\ \A a \in 1..Len(kept) : \A b \in 1..Len(kept) :
            a # b => ~Within(kept[a], kept[b], arena.thresh)
       /\ \A i \in 1..Len(pts) : \E a \in 1..Len(kept) : Within(kept[a], pts[i], arena.thresh)
       /\ \A a \in 1..Len(kept) : \E i \in 1..Len(pts) : pts[i] = kept[a]
       /\ \A a \in 1..Len(kept) : \A b \in 1..Len(kept) :
            a < b => FirstSeen(kept[a]) < FirstSeen(kept[b])
       /\ (/\ pts # << >>
           /\ \A i \in 1..Len(pts) : \A j \in 1..Len(pts) :
                Within(pts[i], pts[j], arena.thresh)) => Len(kept) = 1
       /\ (/\ pts # << >> /\ arena.thresh = DedupThresh
           /\ \A i \in 1..Len(pts) : \A j \in 1..Len(pts) :
                Dist2(pts[i], pts[j]) <= 15 * 15) => Len(kept) = 1

\* four distinct markers within 1.5 units of each other merged into one goal
C15_Witness ==
  /\ arena.done /\ Len(arena.points) = 4 /\ Len(arena.kept) = 1
  /\ \A i \in 1..4 : \A j \in 1..4 :
       /\ i # j => arena.points[i] # arena.points[j]
       /\ Dist2(arena.points[i], arena.points[j]) <= 15 * 15

\* the unowned quaffles and snitches within pickup radius of position pos
Reachable(pos) ==
  {k \in Balls : /\ balls[k].owner = NoId /\ balls[k].kind \in {"quaffle", "snitch"}
                 /\ Within(balls[k].pos, pos, PickupRadius)}

\* C16: an interact of an unstunned player that carries nothing claims, of the
\* unowned quaffles and snitches within pickup radius, the one nearest to the
\* player, the earlier in the ball list on equal distance.
C16_PickupNearest ==
  [][lastOp'.op = "input" =>
       \A i \in Live :
         (/\ players[i].id = lastOp'.id /\ lastOp'.in.interact
          /\ ~Stunned(players[i], now) /\ players[i].carrying = NoId
          /\ Reachable(players'[i].pos) # {}) =>
            LET C == Reachable(players'[i].pos)
                d(k) == Dist2(balls[k].pos, players'[i].pos)
                n == CHOOSE k \in C : \A m \in C : d(k) < d(m) \/ (d(k) = d(m) /\ k <= m)
            IN players'[i].carrying = balls[n].id /\ balls'[n].owner = players[i].id]_vars

\* C17: a tick changes neither stunnedUntil nor the velocity of a player who is
\* stunned when its resolver runs, whatever bludgers are in range; and an
\* unstunned player within hit radius of several bludgers receives the
\* knockback of the first of them only.
C17_HazardSkipsStunned ==
  [][lastOp'.op = "tick" =>
       \A i \in Live :
         /\ (Stunned(players[i], now') /\ Hitters(i) # {}) =>
              /\ players'[i].stunnedUntil = players[i].stunnedUntil
              /\ players'[i].vel = players[i].vel
         /\ (~Stunned(players[i], now') /\ Cardinality(Hitters(i)) > 1) =>
              /\ players'[i].stunnedUntil = now' + PhysStunMs
              /\ players'[i].vel = FirstKnock(i)]_vars

\* player i carries quaffle k inside at least one goal when the tick's resolver runs
ScoresSome(i, k) ==
  /\ balls[k].kind = "quaffle" /\ players[i].carrying = balls[k].id
  /\ GoalsHolding(players[i]) # {}

\* C18 as stated: a carrier of the quaffle within the radius of k >= 1 goals
\* raises the score of its team by exactly k times the goal award in that tick,
\* and the ball is reset and the ownership link cleared.
C18_OverlapAward ==
  [][lastOp'.op = "tick" =>
       \A i \in Live : \A k \in Balls : ScoresSome(i, k) =>
         /\ score'[players[i].teamId] =
              score[players[i].teamId]
                + SCORE_QUAFFLE * Cardinality(GoalsHolding(players[i]))
         /\ balls'[k].owner = NoId /\ balls'[k].pos = midAir(8) /\ balls'[k].vel = Zero3
         /\ players'[i].carrying = NoId]_vars

\* C18 amended: the goal step adds k times the goal award; the score of the
\* team rises in that tick by that amount plus the capture award when the
\* capture step of the same pass credits the same team.
C18_OverlapAwardAmended ==
  [][lastOp'.op = "tick" =>
       \A i \in Live : \A k \in Balls : ScoresSome(i, k) =>
         /\ score'[players[i].teamId] =
              score[players[i].teamId]
                + SCORE_QUAFFLE * Cardinality(GoalsHolding(players[i]))
                + CaptureAward(players[i].teamId)
         /\ balls'[k].owner = NoId /\ balls'[k].pos = midAir(8) /\ balls'[k].vel = Zero3
         /\ players'[i].carrying = NoId]_vars

\* a carrier inside two goals credited twice in one tick
C18_Witness ==
  /\ lastOp.op = "tick"
  /\ \E i \in Live : \E k \in Balls :
       /\ Cardinality(GoalsHolding(players[i])) = 2
       /\ players[i].carrying = NoId
       /\ balls[k].kind = "quaffle" /\ balls[k].owner = NoId
       /\ balls[k].pos = midAir(8) /\ balls[k].vel = Zero3
       /\ score[players[i].teamId] = 2 * SCORE_QUAFFLE

\* C19: when a tick's resolver finds a carrier of the quaffle inside a goal and
\* within hit radius of a bludger, the goal is credited, the ball ends the tick
\* unowned at the respawn point with zero velocity, and the player is knocked
\* back and stunned in the same tick.
C19_ResolverOrder ==
  [][lastOp'.op = "tick" =>
       \A i \in Live : \A k \in Balls : (ScoresSome(i, k) /\ Hitters(i) # {}) =>
         /\ score'[players[i].teamId] - score[players[i].teamId]
              - CaptureAward(players[i].teamId)
              = SCORE_QUAFFLE * Cardinality(GoalsHolding(players[i]))
         /\ balls'[k].owner = NoId /\ balls'[k].pos = midAir(8) /\ balls'[k].vel = Zero3
         /\ players'[i].carrying = NoId
         /\ players'[i].stunnedUntil = now' + PhysStunMs
         /\ players'[i].vel.y = players[i].vel.y + KnockPop * Cardinality(Hitters(i))
         /\ Cardinality(Hitters(i)) = 1 => players'[i].vel = FirstKnock(i)]_vars

\* a player credited a goal and stunned by the same tick, the quaffle at rest at
\* its respawn point and not at the player's position
C19_Witness ==
  /\ lastOp.op = "tick"
  /\ \E i \in Live : \E k \in Balls :
       /\ GoalsHolding(players[i]) # {}
       /\ players[i].stunnedUntil = now + PhysStunMs /\ players[i].carrying = NoId
       /\ score[players[i].teamId] >= SCORE_QUAFFLE
       /\ score[players[i].teamId] < SCORE_SNITCH
       /\ balls[k].kind = "quaffle" /\ balls[k].owner = NoId
       /\ balls[k].pos = midAir(8) /\ balls[k].vel = Zero3
       /\ balls[k].pos # players[i].pos

\* C20: an interact of an unstunned player that carries a ball leaves the ball
\* unowned at the player's position, the player carrying nothing, and gives
\* the ball the throw power times the normalized aim direction, or without an
\* aim times the normalized (vel.x, upward bias, vel.z) of the player.
C20_Throw ==
  [][lastOp'.op = "input" =>
       \A i \in Live : \A k \in Balls :
         (/\ players[i].id = lastOp'.id /\ lastOp'.in.interact
          /\ ~Stunned(players[i], now) /\ players[i].carrying = balls[k].id) =>
            LET q == players'[i]
                dir == norm(IF lastOp'.in.throwDir = NoDir
                            THEN Vec(q.vel.x, ThrowLift, q.vel.z)
                            ELSE lastOp'.in.throwDir)
            IN /\ balls'[k].owner = NoId /\ q.carrying = NoId
               /\ balls'[k].pos = q.pos
               /\ balls'[k].vel = Vec(TDiv(dir.x * ThrowPower * Scale, Unit),
                                      TDiv(dir.y * ThrowPower * Scale, Unit),
                                      TDiv(dir.z * ThrowPower * Scale, Unit))]_vars

\* a throw along an aim that is not of unit length: the ball leaves at throw
\* power along it
C20_Witness ==
  /\ lastOp.op = "input" /\ lastOp.in.interact /\ lastOp.in.throwDir = Vec(0, 30, 40)
  /\ \E i \in Live : \E k \in Balls :
       /\ players[i].id = lastOp.id /\ players[i].carrying = NoId
       /\ balls[k].owner = NoId /\ balls[k].pos = players[i].pos
       /\ balls[k].vel = Vec(0, 156, 208)

\* the position of player i before the input recorded in lastOp moved it
BeforeInput(i) ==
  LET p == players[i]
  IN Vec(p.pos.x - MulDt(p.vel.x, lastOp.dt), p.pos.y - MulDt(p.vel.y, lastOp.dt),
         p.pos.z - MulDt(p.vel.z, lastOp.dt))

\* the carrier i of ball k has been moved by an input since the last tick
CarrierMoved(i, k) ==
  /\ lastOp.op = "input" /\ lastOp.id = players[i].id /\ ~lastOp.in.interact
  /\ ~Stunned(players[i], now)
  /\ players[i].carrying = balls[k].id /\ balls[k].owner = players[i].id

\* C21: a tick applies no force to a ball that stays owned, and the position of
\* an owned ball follows its owner: when an input has moved the carrier since
\* the last tick, so that the carrier ends the tick at another position than it
\* had, the ball ends the tick at another position than it had.
C21_CarriedFollowsOwner ==
  [][lastOp'.op = "tick" =>
       \A i \in Live : \A k \in Balls :
         (/\ players[i].carrying = balls[k].id /\ balls[k].owner = players[i].id
          /\ balls'[k].owner = balls[k].owner) =>
            /\ balls'[k].vel = balls[k].vel
            /\ (CarrierMoved(i, k) /\ players'[i].pos # BeforeInput(i))
                  => balls'[k].pos # balls[k].pos]_vars


\* C22: a stale ownership link heals: a ball whose owner is no longer in the
\* registry when a tick begins is unowned when that tick ends.
C22_StaleOwnerHeals ==
  [][lastOp'.op = "tick" =>
       \A k \in Balls :
         (balls[k].owner # NoId /\ ~HasPlayer(players, balls[k].owner)) =>
            balls'[k].owner = NoId]_vars

\* C23: inputs are buffered to the tick boundary: the delivery of an input
\* changes no player and no ball; the state changes at the next tick.
C23_InputsBuffered ==
  [][lastOp'.op = "input" => players' = players /\ balls' = balls]_vars

\* C24: players are zero-gravity: an input of an unstunned player that presses
\* neither ascend nor descend applies no gravity: it leaves the vertical
\* velocity of that player as it was.
C24_ZeroGravity ==
  [][lastOp'.op = "input" =>
       \A i \in Live :
         (/\ players[i].id = lastOp'.id /\ ~Stunned(players[i], now)
          /\ ~lastOp'.in.ascend /\ ~lastOp'.in.descend) =>
            players'[i].vel.y = players[i].vel.y]_vars

\* C25: every tick integrates the position of every player by its velocity,
\* pos += vel * dt, whether or not the player sent an input; the floor clamp
\* may then raise pos.y to the floor.
C25_TickIntegratesPlayers ==
  [][lastOp'.op = "tick" =>
       \A i \in Live :
         LET p == players[i]
             q == players'[i]
         IN /\ q.pos.x = p.pos.x + MulDt(p.vel.x, lastOp'.dt)
            /\ q.pos.z = p.pos.z + MulDt(p.vel.z, lastOp'.dt)
            /\ \/ q.pos.y = p.pos.y + MulDt(p.vel.y, lastOp'.dt)
               \/ q.pos.y = FloorY]_vars

\* C26: the floor clamp: at the end of every tick every player is at or above
\* the floor; a player that began the clamp below the floor ends the tick on
\* the floor with vel.y >= 0; the tick leaves pos.x and pos.z of every player
\* as they were, and the horizontal velocity of every player no bludger hit.
C26_FloorClamp ==
  [][lastOp'.op = "tick" =>
       \A i \in Live :
         LET p == players[i]
             q == players'[i]
         IN /\ q.pos.y >= FloorY
            /\ p.pos.y < FloorY => (q.pos.y = FloorY /\ q.vel.y >= 0)
            /\ q.pos.x = p.pos.x /\ q.pos.z = p.pos.z
            /\ q.stunnedUntil = p.stunnedUntil =>
                 (q.vel.x = p.vel.x /\ q.vel.z = p.vel.z)
            /\ p.pos.y >= FloorY => q.pos.y = p.pos.y
            /\ (p.pos.y >= FloorY /\ q.stunnedUntil = p.stunnedUntil) =>
                 q.vel.y = p.vel.y]_vars

\* a tick has put a falling player back on the floor and stopped its fall,
\* while it keeps flying level
C26_Witness ==
  /\ lastOp.op = "tick"
  /\ \E i \in Live :
       /\ players[i].pos.y = FloorY /\ players[i].vel.y = 0
       /\ players[i].vel.x # 0 /\ players[i].stunnedUntil = 0

\* player t is at minimum distance from pos, and is the earliest such player
\* of the registry
SeekTarget(t, pos) ==
  /\ \A j \in Live : Dist2(pos, players[t].pos) <= Dist2(pos, players[j].pos)
  /\ \A j \in 1..(t - 1) : Dist2(pos, players[t].pos) < Dist2(pos, players[j].pos)

\* C27: in a tick the velocity of an unowned bludger changes by gravity and
\* drag and, when there are players, by the seek increment, seek speed * dt
\* along the normalized direction from the ball (where the integration has put
\* it) to the player at minimum distance from it, the earliest of the registry
\* among equidistant players; the velocity of a ball that stays owned does not
\* change.
C27_HazardSeek ==
  [][lastOp'.op = "tick" =>
       \A k \in Balls :
         /\ (balls[k].kind = "bludger" /\ balls[k].owner = NoId) =>
              LET b1 == integrateBall(balls[k], lastOp'.dt)
                  inc == sub(balls'[k].vel, b1.vel)
              IN IF Live = {} THEN inc = Zero3
                 ELSE \E t \in Live :
                        /\ SeekTarget(t, b1.pos)
                        /\ LET dir == norm(sub(players[t].pos, b1.pos))
                           IN inc = Vec(PushDt(dir.x, SeekSpeed, lastOp'.dt),
                                        PushDt(dir.y, SeekSpeed, lastOp'.dt),
                                        PushDt(dir.z, SeekSpeed, lastOp'.dt))
         /\ (balls[k].owner # NoId /\ balls'[k].owner = balls[k].owner) =>
              balls'[k].vel = balls[k].vel]_vars

\* a tick has pulled a bludger toward the first of two players that are at
\* the same distance from it on opposite sides
C27_Witness ==
  /\ lastOp.op = "tick" /\ Len(players) = 2
  /\ \E k \in Balls :
       /\ balls[k].kind = "bludger" /\ balls[k].owner = NoId
       /\ Dist2(balls[k].pos, players[1].pos) = Dist2(balls[k].pos, players[2].pos)
       /\ players[2].pos.x < balls[k].pos.x /\ balls[k].pos.x < players[1].pos.x
       /\ balls[k].vel.x > 0

\* ball k is a bludger at minimum distance from pos, the earliest such of the
\* ball list
SwingTarget(k, pos) ==
  /\ balls[k].kind = "bludger"
  /\ \A j \in Balls : balls[j].kind = "bludger" =>
       Dist2(pos, balls[k].pos) <= Dist2(pos, balls[j].pos)
  /\ \A j \in 1..(k - 1) : balls[j].kind = "bludger" =>
       Dist2(pos, balls[k].pos) < Dist2(pos, balls[j].pos)

\* C28: an input of an unstunned player that swings and does not interact
\* changes the owner and the position of no ball and the carrying reference of
\* no player, changes the velocity of no ball but the nearest bludger, and of
\* that one only when it is within the swing radius of the player; an interact
\* that does not swing, by an unstunned player that carries nothing and has no
\* unowned quaffle or snitch within the pickup radius, changes no ball.
C28_SwingAndNoTarget ==
  [][lastOp'.op = "input" =>
       \A i \in Live :
         (players[i].id = lastOp'.id /\ ~Stunned(players[i], now)) =>
           /\ (lastOp'.in.beaterSwing /\ ~lastOp'.in.interact) =>
                /\ \A k \in Balls :
                     /\ balls'[k].owner = balls[k].owner
                     /\ balls'[k].pos = balls[k].pos
                     /\ balls'[k].vel # balls[k].vel =>
                          /\ SwingTarget(k, players'[i].pos)
                          /\ Within(balls[k].pos, players'[i].pos, SwingRadius)
                /\ \A j \in Live : players'[j].carrying = players[j].carrying
           /\ (/\ lastOp'.in.interact /\ ~lastOp'.in.beaterSwing
               /\ players[i].carrying = NoId
               /\ \A k \in Balls :
                    ~(/\ balls[k].owner = NoId
                      /\ balls[k].kind \in {"quaffle", "snitch"}
                      /\ Within(balls[k].pos, players'[i].pos, PickupRadius))) =>
                balls' = balls]_vars

\* a swing has batted the nearer of the two bludgers away and left the other
\* balls as they were
C28_Witness ==
  /\ lastOp.op = "input" /\ lastOp.in.beaterSwing /\ ~lastOp.in.interact
  /\ \E i \in Live : \E k \in Balls :
       /\ players[i].id = lastOp.id /\ ~Stunned(players[i], now)
       /\ SwingTarget(k, players[i].pos)
       /\ Within(balls[k].pos, players[i].pos, SwingRadius)
       /\ balls[k].vel.y >= SwingPop

\* the players whose carrying reference names ball k
Carriers(k) == {i \in Live : players[i].carrying = balls[k].id}

\* C29: exclusive carrying: after every step no ball is named by the carrying
\* reference of two players and no two balls share an identifier, so that the
\* one carrying reference of a player names at most one ball; and an interact
\* of an unstunned player that carries a ball throws: it ends carrying nothing
\* and no ball gains an owner.
C29_ExclusiveCarrying ==
  [][/\ \A k \in 1..Len(balls') :
          \A i, j \in 1..Len(players') :
            (players'[i].carrying = balls'[k].id /\ players'[j].carrying = balls'[k].id)
               => i = j
     /\ \A k, m \in 1..Len(balls') : balls'[k].id = balls'[m].id => k = m
     /\ lastOp'.op = "input" =>
          \A i \in Live :
            (/\ players[i].id = lastOp'.id /\ lastOp'.in.interact
             /\ ~Stunned(players[i], now) /\ players[i].carrying # NoId) =>
               /\ players'[i].carrying = NoId
               /\ \A k \in Balls : balls[k].owner = NoId => balls'[k].owner = NoId]_vars

\* a player that carries nothing has just interacted within pickup radius of a
\* ball another player carries, and the ball has stayed with its carrier
C29_Witness ==
  /\ lastOp.op = "input" /\ lastOp.in.interact
  /\ \E i, j \in Live : \E k \in Balls :
       /\ i # j /\ players[i].id = lastOp.id /\ ~Stunned(players[i], now)
       /\ players[i].carrying = NoId
       /\ Carriers(k) = {j} /\ balls[k].owner = players[j].id
       /\ Within(balls[k].pos, players[i].pos, PickupRadius)

\* C30: bludgers are never owned: every ball that has an owner, and every ball
\* the carrying reference of a player names, is a quaffle or a snitch.
C30_HazardsNeverOwned ==
  /\ \A k \in Balls : balls[k].owner # NoId => balls[k].kind \in {"quaffle", "snitch"}
  /\ \A i \in Live : \A k \in Balls :
       players[i].carrying = balls[k].id => balls[k].kind \in {"quaffle", "snitch"}

\* a player that carries nothing has just interacted within pickup radius of
\* a bludger, with no quaffle or snitch in reach, and carries nothing still
C30_Witness ==
  /\ lastOp.op = "input" /\ lastOp.in.interact
  /\ \E i \in Live :
       /\ players[i].id = lastOp.id /\ ~Stunned(players[i], now)
       /\ players[i].carrying = NoId
       /\ \E k \in Balls : /\ balls[k].kind = "bludger"
                           /\ Within(balls[k].pos, players[i].pos, PickupRadius)
       /\ \A k \in Balls : balls[k].kind # "bludger" =>
            ~Within(balls[k].pos, players[i].pos, PickupRadius)

\* C31: a stunned player carries nothing: a registered player whose stun has
\* not expired (now < stunnedUntil) has no carrying reference, and no ball has
\* that player as its owner.
C31_StunnedCarriesNothing ==
  \A i \in Live :
    Stunned(players[i], now) =>
      /\ players[i].carrying = NoId
      /\ \A k \in Balls : balls[k].owner # players[i].id
====
